---- MODULE Spec2Model ----
(***************************************************************************)
(* A model of bip-0158/gentestvectors.go: the driver that walks the block  *)
(* chain from height 0, builds the basic and the extended compact filter   *)
(* of every block for every collision parameter P = 1..32, chains the      *)
(* filter headers per P, cross-checks the default P against the server and *)
(* writes one JSON row per (interesting height, P).                        *)
(*                                                                         *)
(* Byte strings are sequences of naturals.  The hash functions and the     *)
(* Golomb-Rice encoding are idealised as injective: a digest is the tagged *)
(* term of what was hashed, a filter's bytes are the element count         *)
(* followed by the term (P, key, element set).                             *)
(***************************************************************************)
EXTENDS Integers, Sequences, FiniteSets, TLC

\* ------------------------------------------------------------- bounds
\* The greatest height an interesting-height list may name.
MaxHeight == 2

\* ---------------------------------------------------- program constants
\* for i := 1; i <= 32; i++ : the collision parameters swept.
NumP == 32
\* builder.DefaultP, the parameter the server's filters are built with.
DefaultP == 20

Ps == 1..NumP

Range(s) == {s[k] : k \in 1..Len(s)}

Last(s) == s[Len(s)]

\* ------------------------------------------------------------ hashes
\* chainhash.Hash{} : the zero value every slot of make([]chainhash.Hash, 33) holds.
ZeroHash == <<"zero32">>

\* chainhash.DoubleHashH, idealised as injective.
DoubleHashH(b) == <<"sha256d", b>>

\* chainhash.Hash.String(): the byte-reversed hexadecimal form.
HashString(h) == <<"hexrev", h>>

\* hex.EncodeToString.
HexEncode(b) == <<"hex", b>>

\* ------------------------------------------------------------ blocks
\* A nil []byte, as opposed to an empty one.
NilScript == <<-1>>

\* wire.OutPoint of a coinbase input: null hash, index 0xffffffff.
NullOutPoint == [Hash |-> <<0>>, Index |-> 255]

\* Height-0 style block: a single coinbase transaction whose input carries
\* an outpoint, a signature script with a push and a witness.
BlockCoinbaseOnly ==
    [Hash |-> <<1>>,
     Transactions |-> <<
        [Hash  |-> <<161>>,
         TxIn  |-> << [PreviousOutPoint |-> NullOutPoint,
                       SignatureScript  |-> <<2, 7, 7>>,
                       Witness          |-> << <<9>> >>] >>,
         TxOut |-> << <<1, 65, 172>> >>] >>]

\* A coinbase whose output script cannot be parsed (a push of two bytes with
\* one byte left) and whose input carries pushes (one by OP_PUSHDATA1) and a
\* witness; a spending transaction whose outputs push the same data twice
\* and whose input pushes, among others, the bytes of the coinbase hash;
\* and a transaction with witness data: one input has a nil signature
\* script and a two-item witness, the other a signature script without
\* pushes.
BlockUnparseable ==
    [Hash |-> <<2>>,
     Transactions |-> <<
        [Hash  |-> <<162>>,
         TxIn  |-> << [PreviousOutPoint |-> NullOutPoint,
                       SignatureScript  |-> <<1, 3, 76, 1, 5>>,
                       Witness          |-> << <<8>> >>] >>,
         TxOut |-> << <<2, 66>> >>],
        [Hash  |-> <<163>>,
         TxIn  |-> << [PreviousOutPoint |-> [Hash |-> <<161>>, Index |-> 0],
                       SignatureScript  |-> <<1, 48, 1, 49, 1, 162>>,
                       Witness          |-> << >>] >>,
         TxOut |-> << <<118, 1, 65>>, <<1, 65>> >>],
        [Hash  |-> <<165>>,
         TxIn  |-> << [PreviousOutPoint |-> [Hash |-> <<163>>, Index |-> 1],
                       SignatureScript  |-> NilScript,
                       Witness          |-> << <<48>>, <<50, 51>> >>],
                      [PreviousOutPoint |-> [Hash |-> <<163>>, Index |-> 0],
                       SignatureScript  |-> <<106>>,
                       Witness          |-> << >>] >>,
         TxOut |-> << <<106>>, <<1, 65, 172>> >>] >>]

\* What client.GetBlock may return at a height.
TestBlocks == {BlockCoinbaseOnly, BlockUnparseable}

\* block.Serialize: the wire form, an injective function of the block.
Serialize(block) == <<"block", block.Hash, block.Transactions>>

\* ----------------------------------------------------- script parsing
\* The little-endian number a PUSHDATA length field holds.
RECURSIVE LittleEndian(_)
LittleEndian(b) ==
    IF b = <<>> THEN 0 ELSE Head(b) + 256 * LittleEndian(Tail(b))

\* txscript.PushedData: the data of every push operation of the script, in
\* order; a push that runs past the end of the script is a parse error.
\* Opcodes 1..75 push that many bytes, 76/77/78 (OP_PUSHDATA1/2/4) push the
\* number of bytes their 1/2/4-byte length field names, every other opcode
\* carries no data.
RECURSIVE ParseFrom(_, _, _)
ParseFrom(script, off, acc) ==
    IF off > Len(script) THEN [err |-> FALSE, data |-> acc]
    ELSE LET op == script[off] IN
         IF op >= 1 /\ op <= 75
         THEN IF off + op > Len(script)
              THEN [err |-> TRUE, data |-> <<>>]
              ELSE ParseFrom(script, off + op + 1,
                             Append(acc, SubSeq(script, off + 1, off + op)))
         ELSE IF op \in {76, 77, 78}
         THEN LET w == CASE op = 76 -> 1 [] op = 77 -> 2 [] OTHER -> 4 IN
              IF off + w > Len(script)
              THEN [err |-> TRUE, data |-> <<>>]
              ELSE LET n == LittleEndian(SubSeq(script, off + 1, off + w)) IN
                   IF off + w + n > Len(script)
                   THEN [err |-> TRUE, data |-> <<>>]
                   ELSE ParseFrom(script, off + w + n + 1,
                                  Append(acc, SubSeq(script, off + w + 1, off + w + n)))
         ELSE ParseFrom(script, off + 1, acc)

PushedData(script) == ParseFrom(script, 1, <<>>)

\* ------------------------------------------------------ the GCS builder
\* builder.WithKeyHashP: a builder keyed by the block hash, with P set; the
\* builder is in its error state when P exceeds 32.
WithKeyHashP(hash, p) ==
    [key |-> hash, p |-> p, data |-> <<>>, err |-> p > 32]

\* b.AddEntry: the byte string itself becomes one entry.
AddEntry(b, data) ==
    IF b.err THEN b ELSE [b EXCEPT !.data = Append(@, data)]

\* b.AddEntries: every byte string of the list becomes an entry.
AddEntries(b, list) ==
    IF b.err THEN b ELSE [b EXCEPT !.data = @ \o list]

\* b.AddHash: the 32 bytes of the hash.
AddHash(b, hash) == AddEntry(b, hash)

\* The serialized outpoint: the hash followed by the index as four
\* little-endian bytes.
OutPointBytes(outpoint) == outpoint.Hash \o <<outpoint.Index, 0, 0, 0>>

\* b.AddOutPoint: the serialized outpoint becomes one entry.
AddOutPoint(b, outpoint) == AddEntry(b, OutPointBytes(outpoint))

\* b.AddScript: the data pushes of the script; parse errors are ignored and
\* a script without pushes adds nothing.
AddScript(b, script) ==
    LET parsed == PushedData(script) IN
    IF b.err \/ parsed.err \/ parsed.data = <<>> THEN b
    ELSE AddEntries(b, parsed.data)

\* b.AddWitness: every item of the witness stack.
AddWitness(b, witness) == AddEntries(b, witness)

\* A nil *gcs.Filter.
NilFilter == [nil |-> TRUE]

\* &gcs.Filter{} : the zero-value filter the driver substitutes for nil.
EmptyFilter == [nil |-> FALSE, n |-> 0, p |-> 0, key |-> <<>>, set |-> {}]

\* Mutant of Build: an entry added twice is counted twice.
Build_CountsDuplicates(b) ==
    IF b.err THEN [err |-> TRUE, filter |-> NilFilter]
    ELSE [err |-> FALSE,
          filter |-> [nil |-> FALSE, n |-> Len(b.data),
                      p |-> b.p, key |-> b.key, set |-> Range(b.data)]]

\* b.Build -> gcs.BuildGCSFilter: the entries collapse to a set; N is its size.
Build(b) ==
    IF b.err THEN [err |-> TRUE, filter |-> NilFilter]
    ELSE [err |-> FALSE,
          filter |-> [nil |-> FALSE, n |-> Cardinality(Range(b.data)),
                      p |-> b.p, key |-> b.key, set |-> Range(b.data)]]

\* f.NBytes: the count prefix followed by the Golomb-Rice stream, which is
\* empty for a filter of zero elements.
NBytes(f) ==
    IF f.n = 0 THEN <<0>> ELSE <<f.n, f.p, f.key, f.set>>

\* builder.GetFilterHash.
GetFilterHash(f) == DoubleHashH(NBytes(f))

\* Mutant of MakeHeaderForFilter: the previous header is left out of the hash.
MakeHeaderForFilter_DropsPrev(f, prevHeader) ==
    DoubleHashH(<<GetFilterHash(f)>>)

\* builder.MakeHeaderForFilter: doubleHash(filterHash || prevHeader).
MakeHeaderForFilter(f, prevHeader) ==
    DoubleHashH(<<GetFilterHash(f), prevHeader>>)

\* ------------------------------------------------- element extraction
\* for _, txIn := range tx.TxIn { b.AddOutPoint(txIn.PreviousOutPoint) }
RECURSIVE AddOutPoints(_, _)
AddOutPoints(b, ins) ==
    IF ins = <<>> THEN b
    ELSE AddOutPoints(AddOutPoint(b, Head(ins).PreviousOutPoint), Tail(ins))

\* for _, txOut := range tx.TxOut { b.AddEntry(txOut.PkScript) }
RECURSIVE AddPkScripts(_, _)
AddPkScripts(b, outs) ==
    IF outs = <<>> THEN b
    ELSE AddPkScripts(AddEntry(b, Head(outs)), Tail(outs))

\* Mutant of BasicAddTx: the inputs of the coinbase transaction are not
\* skipped.
BasicAddTx_NoCoinbaseSkip(b, i, tx) ==
    AddPkScripts(AddOutPoints(AddHash(b, tx.Hash), tx.TxIn), tx.TxOut)

\* One round of buildBasicFilter's loop, for transaction number i (from 0).
BasicAddTx(b, i, tx) ==
    LET withHash == AddHash(b, tx.Hash)
        withIns  == IF i # 0 THEN AddOutPoints(withHash, tx.TxIn) ELSE withHash
    IN  AddPkScripts(withIns, tx.TxOut)

RECURSIVE BasicLoop(_, _, _)
BasicLoop(b, i, txs) ==
    IF i >= Len(txs) THEN b
    ELSE BasicLoop(BasicAddTx(b, i, txs[i + 1]), i + 1, txs)

\* buildBasicFilter(block, p): [err, filter].
buildBasicFilter(block, p) ==
    LET b == WithKeyHashP(block.Hash, p) IN
    IF b.err THEN [err |-> TRUE, filter |-> NilFilter]
    ELSE Build(BasicLoop(b, 0, block.Transactions))

\* Mutant of ExtAddTxIn: the witness stack is left out.
ExtAddTxIn_NoWitness(b, txIn) ==
    IF txIn.SignatureScript # NilScript
    THEN AddScript(b, txIn.SignatureScript) ELSE b

\* The body of buildExtFilter's loop over the inputs of one transaction.
ExtAddTxIn(b, txIn) ==
    LET withSig == IF txIn.SignatureScript # NilScript
                   THEN AddScript(b, txIn.SignatureScript) ELSE b
    IN  IF Len(txIn.Witness) # 0 THEN AddWitness(withSig, txIn.Witness)
        ELSE withSig

RECURSIVE ExtAddTxIns(_, _)
ExtAddTxIns(b, ins) ==
    IF ins = <<>> THEN b
    ELSE ExtAddTxIns(ExtAddTxIn(b, Head(ins)), Tail(ins))

\* Mutant of ExtAddTx: the hash of the transaction is added as well.
ExtAddTx_AddsHash(b, i, tx) ==
    IF i # 0 THEN ExtAddTxIns(AddHash(b, tx.Hash), tx.TxIn)
    ELSE AddHash(b, tx.Hash)

\* One round of buildExtFilter's loop, for transaction number i (from 0).
ExtAddTx(b, i, tx) ==
    IF i # 0 THEN ExtAddTxIns(b, tx.TxIn) ELSE b

RECURSIVE ExtLoop(_, _, _)
ExtLoop(b, i, txs) ==
    IF i >= Len(txs) THEN b
    ELSE ExtLoop(ExtAddTx(b, i, txs[i + 1]), i + 1, txs)

\* Mutant of buildExtFilter: a block without elements is an error.
buildExtFilter_ErrOnEmpty(block, p) ==
    LET b == WithKeyHashP(block.Hash, p)
        r == Build(ExtLoop(b, 0, block.Transactions))
    IN  IF b.err \/ r.err \/ r.filter.n = 0
        THEN [err |-> TRUE, filter |-> NilFilter]
        ELSE r

\* buildExtFilter(block, p): [err, filter].
buildExtFilter(block, p) ==
    LET b == WithKeyHashP(block.Hash, p) IN
    IF b.err THEN [err |-> TRUE, filter |-> NilFilter]
    ELSE Build(ExtLoop(b, 0, block.Transactions))

\* ------------------------------------------------------------- state
VARIABLES
    pc,                \* where main is: "mkdir", "create", "connect", "fetch", "fan", "done"
    i,                 \* the loop variable i of the running for loop
    height,            \* the loop variable height
    testBlockIndex,    \* var testBlockIndex int
    testBlockHeights,  \* the interesting heights with their notes
    prevBasicHeaders,  \* make([]chainhash.Hash, 33)
    prevExtHeaders,    \* make([]chainhash.Hash, 33)
    writers,           \* the JSONTestWriter made for each P, and whether files[P] holds it
    disk,              \* the file gcstestvectors/testnet-P.json: its state and what was written
    defers,            \* main's stack of deferred calls, oldest first
    chain,             \* the blocks the server has returned, by height
    stdout,            \* the lines printed so far
    reference,         \* the server's replies received in the cross-check of the current block
    builtLog,          \* history: the (height, P) pairs whose filters were built, in order
    advLog             \* history: for each P, the heights its chain slots were assigned at, in order

vars == <<pc, i, height, testBlockIndex, testBlockHeights, prevBasicHeaders,
          prevExtHeaders, writers, disk, defers, chain, stdout, reference,
          builtLog, advLog>>

\* The state as one record, so that a handler is a function from state to state.
Cur ==
    [pc |-> pc, i |-> i, height |-> height, testBlockIndex |-> testBlockIndex,
     testBlockHeights |-> testBlockHeights,
     prevBasicHeaders |-> prevBasicHeaders, prevExtHeaders |-> prevExtHeaders,
     writers |-> writers, disk |-> disk, defers |-> defers, chain |-> chain,
     stdout |-> stdout, reference |-> reference, builtLog |-> builtLog,
     advLog |-> advLog]

Becomes(s) ==
    /\ pc' = s.pc
    /\ i' = s.i
    /\ height' = s.height
    /\ testBlockIndex' = s.testBlockIndex
    /\ testBlockHeights' = s.testBlockHeights
    /\ prevBasicHeaders' = s.prevBasicHeaders
    /\ prevExtHeaders' = s.prevExtHeaders
    /\ writers' = s.writers
    /\ disk' = s.disk
    /\ defers' = s.defers
    /\ chain' = s.chain
    /\ stdout' = s.stdout
    /\ reference' = s.reference
    /\ builtLog' = s.builtLog
    /\ advLog' = s.advLog

\* testBlockHeights' notes, in the order of the table.
Notes ==
    <<"Genesis block", "Extended filter is empty", "", "",
      "Duplicate pushdata 913bcc2be49cb534c20474c4dee1e9c4c317e7eb",
      "Coinbase tx has unparseable output script", "Includes witness data">>

\* A testBlockCase.
testBlockCase(h) == [height |-> h, comment |-> Notes[(h % Len(Notes)) + 1]]

\* "Any new entries must be added in sorted order": the tables the program
\* may be built with are the non-empty strictly increasing lists of heights.
RECURSIVE SortedSeq(_)
SortedSeq(S) ==
    IF S = {} THEN <<>>
    ELSE LET m == CHOOSE x \in S : \A y \in S : x <= y
         IN  <<testBlockCase(m)>> \o SortedSeq(S \ {m})

HeightTables == {SortedSeq(S) : S \in (SUBSET (0..MaxHeight)) \ {{}}}

\* ----------------------------------------------------- JSONTestWriter
OpenBracket == <<"[\n">>
Comma == <<",\n">>
CloseBracket == <<"\n]\n">>

\* json.Marshal(row).
Marshal(row) == <<"json", row>>

\* One write to a file; a write fails when the file is not open or the
\* device refuses it (ok = FALSE), and then leaves the file as it was.
FileWrite(f, chunk, ok) ==
    IF ok /\ f.state = "open"
    THEN [err |-> FALSE, file |-> [f EXCEPT !.data = Append(@, chunk)]]
    ELSE [err |-> TRUE, file |-> f]

\* (w *JSONTestWriter) WriteTestCase(row), w writing to file f.  fault names
\* the write the device refuses: "none", "separator" or "row".
WriteTestCase(w, f, row, fault) ==
    LET sep == FileWrite(f, IF w.firstRowWritten THEN Comma ELSE OpenBracket,
                         fault # "separator")
        w1  == [w EXCEPT !.firstRowWritten = TRUE]
    IN  IF sep.err THEN [err |-> TRUE, writer |-> w1, file |-> sep.file]
        ELSE LET body == FileWrite(sep.file, Marshal(row), fault # "row")
             IN  [err |-> body.err, writer |-> w1, file |-> body.file]

\* (w *JSONTestWriter) WriteComment(comment).
WriteComment(w, f, comment, fault) ==
    WriteTestCase(w, f, <<comment>>, fault)

\* (w *JSONTestWriter) Close(), w writing to file f; the deferred call
\* drops the error.
WriterClose(w, f) ==
    IF ~w.firstRowWritten THEN f
    ELSE FileWrite(f, CloseBracket, TRUE).file

\* file.Close().
FileClose(f) == [f EXCEPT !.state = "closed"]

\* Mutant of RunCalls: the deferred calls run oldest first.
RECURSIVE RunCalls_OldestFirst(_, _, _)
RunCalls_OldestFirst(calls, w, f) ==
    IF calls = <<>> THEN f
    ELSE RunCalls_OldestFirst(Tail(calls), w,
                              IF Head(calls)[1] = "writer.Close" THEN WriterClose(w, f)
                              ELSE FileClose(f))

\* The deferred calls of one file, run newest first.
RECURSIVE RunCalls(_, _, _)
RunCalls(calls, w, f) ==
    IF calls = <<>> THEN f
    ELSE RunCalls(SubSeq(calls, 1, Len(calls) - 1), w,
                  IF Last(calls)[1] = "writer.Close" THEN WriterClose(w, f)
                  ELSE FileClose(f))

\* The deferred calls run when main returns, newest first; a call touches
\* the file of its own P only.
RunDefers(stack, w, d) ==
    [P \in Ps |->
        LET OfP(call) == call[2] = P
        IN  RunCalls(SelectSeq(stack, OfP), w[P], d[P])]

\* fmt.Println(msg); return -- with the deferred calls.
Return(s, msg) ==
    [s EXCEPT !.pc = "done",
              !.stdout = Append(@, <<msg>>),
              !.disk = RunDefers(s.defers, s.writers, s.disk),
              !.defers = <<>>]

\* main returns at the end of its body, printing nothing.
ReturnQuietly(s) ==
    [s EXCEPT !.pc = "done",
              !.disk = RunDefers(s.defers, s.writers, s.disk),
              !.defers = <<>>]

\* --------------------------------------------------------------- main
\* os.Mkdir("gcstestvectors", ...): existing output is not overwritten.
Mkdir(s, ok) ==
    IF ~ok THEN Return(s, "Couldn't create directory: ")
    ELSE [s EXCEPT !.pc = "create", !.i = 1]

HeaderComment ==
    "Block Height,Block Hash,Block,Previous Basic Header,Previous Ext Header,Basic Filter,Ext Filter,Basic Header,Ext Header,Notes"

\* One round of the loop that opens the 32 output files.  outcome is "ok",
\* "create" (os.Create fails), or the write of the comment row the device
\* refuses, "separator" or "row".
CreateFile(s, outcome) ==
    IF outcome = "create" THEN Return(s, "Error creating output file: ")
    ELSE LET P  == s.i
             s1 == [s EXCEPT !.disk[P] = [state |-> "open", data |-> <<>>],
                             !.writers[P].made = TRUE,
                             !.defers = @ \o << <<"file.Close", P>>, <<"writer.Close", P>> >>]
             wc == WriteComment(s1.writers[P], s1.disk[P], HeaderComment,
                                IF outcome = "ok" THEN "none" ELSE outcome)
             s2 == [s1 EXCEPT !.writers[P] = wc.writer, !.disk[P] = wc.file]
         IN  IF wc.err THEN Return(s2, "Error writing to output file: ")
             ELSE [s2 EXCEPT !.writers[P].registered = TRUE,
                             !.i = P + 1,
                             !.pc = IF P + 1 <= NumP THEN "create" ELSE "connect"]

\* Mutant of LoopHead: the loop goes on after the last interesting height.
LoopHead_NeverExits(s) == [s EXCEPT !.pc = "fetch"]

\* The test of the height loop: testBlockIndex < len(testBlockHeights).
LoopHead(s) ==
    IF s.testBlockIndex < Len(s.testBlockHeights)
    THEN [s EXCEPT !.pc = "fetch"]
    ELSE ReturnQuietly(s)

\* Reading the RPC certificate and creating the client; then the height
\* loop starts at height 0 with testBlockIndex 0.
Connect(s, outcome) ==
    IF outcome = "cert" THEN Return(s, "Couldn't read RPC cert: ")
    ELSE IF outcome = "client" THEN Return(s, "Couldn't create a new client: ")
    ELSE LoopHead([s EXCEPT !.testBlockIndex = 0, !.height = 0])

\* Mutant of FetchBlock: a block that fails to serialize is reported and
\* then processed all the same.
FetchBlock_GoesOn(s, outcome, block) ==
    LET s1 == [s EXCEPT !.stdout = Append(@, <<"Height", s.height>>)] IN
    IF outcome = "hash" THEN Return(s1, "Couldn't get block hash: ")
    ELSE IF outcome = "block" THEN Return(s1, "Couldn't get block hash: ")
    ELSE LET s2 == IF outcome = "serialize"
                   THEN [s1 EXCEPT !.stdout =
                            Append(@, <<"Error serializing block to buffer: ">>)]
                   ELSE s1
         IN  [s2 EXCEPT !.chain = Append(@, block), !.pc = "fan", !.i = 1,
                        !.reference = <<>>]

\* The head of the height loop's body: print the height, fetch the block
\* hash and the block, serialize the block.  outcome is "ok" or the call
\* that fails: "hash", "block" or "serialize".
FetchBlock(s, outcome, block) ==
    LET s1 == [s EXCEPT !.stdout = Append(@, <<"Height", s.height>>)] IN
    IF outcome = "hash" THEN Return(s1, "Couldn't get block hash: ")
    ELSE IF outcome = "block" THEN Return(s1, "Couldn't get block hash: ")
    ELSE IF outcome = "serialize" THEN Return(s1, "Error serializing block to buffer: ")
    ELSE [s1 EXCEPT !.chain = Append(@, block), !.pc = "fan", !.i = 1,
                    !.reference = <<>>]

\* A value the server may hold that differs from every locally built one.
WrongBytes == <<255>>
WrongHash == <<"wrong32">>

\* What the k-th call of the cross-check gets from the server: an error,
\* or data that matches or differs from the local value.
ServerReply(kind, local, k) ==
    [err  |-> kind = "error",
     data |-> IF kind = "matches" THEN local
              ELSE IF k <= 2 THEN WrongBytes ELSE WrongHash]

RpcErrorText == <<"Error getting basic filter: ", "Error getting extended filter: ",
                  "Error getting basic header: ", "Error getting extended header: ">>

MismatchText == <<"Basic filter doesn't match!", "Extended filter doesn't match!",
                  "Basic header doesn't match!", "Extended header doesn't match!">>

\* Mutant of CrossCheckFrom: a basic filter that differs from the server's
\* is reported but the run goes on.
RECURSIVE CrossCheckFrom_ToleratesFilter(_, _, _, _)
CrossCheckFrom_ToleratesFilter(s, k, locals, kinds) ==
    IF k > Len(locals) THEN [s EXCEPT !.stdout = Append(@, <<"Verified against server">>)]
    ELSE LET reply == [err  |-> kinds[k] = "error",
                       data |-> IF kinds[k] = "matches" THEN locals[k]
                                ELSE IF k <= 2 THEN <<255>> ELSE <<"wrong32">>]
             s1    == [s EXCEPT !.reference = Append(@, reply)]
         IN  IF reply.err THEN Return(s1, "Error getting reference: ")
             ELSE IF reply.data # locals[k] /\ k > 1 THEN Return(s1, "Doesn't match!")
             ELSE CrossCheckFrom_ToleratesFilter(s1, k + 1, locals, kinds)

\* Mutant of CrossCheckFrom: the two headers are not checked.
RECURSIVE CrossCheckFrom_FiltersOnly(_, _, _, _)
CrossCheckFrom_FiltersOnly(s, k, locals, kinds) ==
    IF k > 2 THEN [s EXCEPT !.stdout = Append(@, <<"Verified against server">>)]
    ELSE LET reply == [err  |-> kinds[k] = "error",
                       data |-> IF kinds[k] = "matches" THEN locals[k] ELSE <<255>>]
             s1    == [s EXCEPT !.reference = Append(@, reply)]
         IN  IF reply.err THEN Return(s1, "Error getting reference: ")
             ELSE IF reply.data # locals[k] THEN Return(s1, "Doesn't match!")
             ELSE CrossCheckFrom_FiltersOnly(s1, k + 1, locals, kinds)

\* The cross-check against the server from its k-th call on: GetCFilter
\* (regular, extended), then GetCFilterHeader (regular, extended), each
\* compared with the local value as soon as it is received.
RECURSIVE CrossCheckFrom(_, _, _, _)
CrossCheckFrom(s, k, locals, kinds) ==
    IF k > Len(locals) THEN [s EXCEPT !.stdout = Append(@, <<"Verified against server">>)]
    ELSE LET reply == ServerReply(kinds[k], locals[k], k)
             s1    == [s EXCEPT !.reference = Append(@, reply)]
         IN  IF reply.err THEN Return(s1, RpcErrorText[k])
             ELSE IF reply.data # locals[k] THEN Return(s1, MismatchText[k])
             ELSE CrossCheckFrom(s1, k + 1, locals, kinds)

CrossCheck(s, basicFilter, extFilter, basicHeader, extHeader, kinds) ==
    CrossCheckFrom(s, 1, <<NBytes(basicFilter), NBytes(extFilter),
                           basicHeader, extHeader>>, kinds)

\* if basicFilter == nil { basicFilter = &gcs.Filter{} }
OrEmpty(f) == IF f.nil THEN EmptyFilter ELSE f

\* Mutant of IsTestHeight: every height counts as interesting.
IsTestHeight_Always(s) == s.height >= 0

\* Whether the current height is the next interesting one.
IsTestHeight(s) ==
    s.height = s.testBlockHeights[s.testBlockIndex + 1].height

\* Mutant of MakeRow: the previous-header columns are read from the new
\* headers.
MakeRow_PrevFromResult(s, P, block, basicFilter, extFilter, basicHeader, extHeader) ==
    <<s.height,
      HashString(block.Hash),
      HexEncode(Serialize(block)),
      HashString(basicHeader),
      HashString(extHeader),
      HexEncode(NBytes(basicFilter)),
      HexEncode(NBytes(extFilter)),
      HashString(basicHeader),
      HashString(extHeader),
      s.testBlockHeights[s.testBlockIndex + 1].comment>>

\* The row of the current block for P.
MakeRow(s, P, block, basicFilter, extFilter, basicHeader, extHeader) ==
    <<s.height,
      HashString(block.Hash),
      HexEncode(Serialize(block)),
      HashString(s.prevBasicHeaders[P]),
      HashString(s.prevExtHeaders[P]),
      HexEncode(NBytes(basicFilter)),
      HexEncode(NBytes(extFilter)),
      HashString(basicHeader),
      HashString(extHeader),
      s.testBlockHeights[s.testBlockIndex + 1].comment>>

\* Mutant of AdvanceSlots: the two headers are stored in each other's slot.
AdvanceSlots_Swapped(s, P, basicHeader, extHeader) ==
    [s EXCEPT !.prevBasicHeaders[P] = extHeader,
              !.prevExtHeaders[P] = basicHeader,
              !.advLog[P] = Append(@, s.height),
              !.i = P + 1]

\* Mutant of AdvanceSlots: the extended header goes to the slot before as
\* well.
AdvanceSlots_AlsoSlotBefore(s, P, basicHeader, extHeader) ==
    [s EXCEPT !.prevBasicHeaders[P] = basicHeader,
              !.prevExtHeaders[P] = extHeader,
              !.prevExtHeaders[P - 1] = extHeader,
              !.advLog[P] = Append(@, s.height),
              !.i = P + 1]

\* prevBasicHeaders[i] = basicHeader; prevExtHeaders[i] = extHeader; i++
AdvanceSlots(s, P, basicHeader, extHeader) ==
    [s EXCEPT !.prevBasicHeaders[P] = basicHeader,
              !.prevExtHeaders[P] = extHeader,
              !.advLog[P] = Append(@, s.height),
              !.i = P + 1]

\* The end of one round of the inner loop: the row, when the height is an
\* interesting one, then the assignment of the two chain slots of P.
EmitAndAdvance(s, P, block, basicFilter, extFilter, basicHeader, extHeader, fault) ==
    LET advance(t) == AdvanceSlots(t, P, basicHeader, extHeader)
    IN  IF IsTestHeight(s)
        THEN LET wt == WriteTestCase(s.writers[P], s.disk[P],
                           MakeRow(s, P, block, basicFilter, extFilter,
                                   basicHeader, extHeader), fault)
                 s1 == [s EXCEPT !.writers[P] = wt.writer, !.disk[P] = wt.file]
             IN  IF wt.err THEN Return(s1, "Error writing test case to output: ")
                 ELSE advance(s1)
        ELSE advance(s)

\* One round of the inner loop, for P = i: build both filters and both
\* headers, cross-check when P is the default, emit, advance.
ProcessP(s, kinds, fault) ==
    LET P     == s.i
        block == Last(s.chain)
        s1    == [s EXCEPT !.builtLog = Append(@, <<s.height, P>>)]
        basic == buildBasicFilter(block, P)
    IN  IF basic.err THEN Return(s1, "Error generating basic filter: ")
        ELSE
        LET basicHeader == MakeHeaderForFilter(basic.filter, s.prevBasicHeaders[P])
            basicFilter == OrEmpty(basic.filter)
            ext         == buildExtFilter(block, P)
        IN  IF ext.err THEN Return(s1, "Error generating ext filter: ")
            ELSE
            LET extHeader == MakeHeaderForFilter(ext.filter, s.prevExtHeaders[P])
                extFilter == OrEmpty(ext.filter)
                s2 == IF P = DefaultP
                      THEN CrossCheck(s1, basicFilter, extFilter, basicHeader,
                                      extHeader, kinds)
                      ELSE s1
            IN  IF s2.pc = "done" THEN s2
                ELSE EmitAndAdvance(s2, P, block, basicFilter, extFilter,
                                    basicHeader, extHeader, fault)

\* Mutant of EndHeight: the post statement skips a height.
EndHeight_SkipsHeight(s) ==
    LET s1 == IF IsTestHeight(s)
              THEN [s EXCEPT !.testBlockIndex = @ + 1] ELSE s
    IN  LoopHead([s1 EXCEPT !.height = @ + 2])

\* The end of the height loop's body, its post statement and its test.
EndHeight(s) ==
    LET s1 == IF IsTestHeight(s)
              THEN [s EXCEPT !.testBlockIndex = @ + 1] ELSE s
    IN  LoopHead([s1 EXCEPT !.height = @ + 1])

\* ------------------------------------------------------ specification
\* Mutant of InitialHeaders: the slots start from a value that is not zero.
InitialHeaders_NonZero == [k \in 0..NumP |-> DoubleHashH(<<0>>)]

\* make([]chainhash.Hash, 33): every slot is the zero hash.
InitialHeaders == [k \in 0..NumP |-> ZeroHash]

Init ==
    /\ pc = "mkdir"
    /\ i = 0
    /\ height = 0
    /\ testBlockIndex = 0
    /\ testBlockHeights \in HeightTables
    /\ prevBasicHeaders = InitialHeaders
    /\ prevExtHeaders = InitialHeaders
    /\ writers = [P \in Ps |-> [made |-> FALSE, firstRowWritten |-> FALSE,
                                registered |-> FALSE]]
    /\ disk = [P \in Ps |-> [state |-> "absent", data |-> <<>>]]
    /\ defers = <<>>
    /\ chain = <<>>
    /\ stdout = <<>>
    /\ reference = <<>>
    /\ builtLog = <<>>
    /\ advLog = [P \in Ps |-> <<>>]

\* The replies the server may give to the four calls of a cross-check: what
\* follows the first failing call is never requested.
ReplyKinds ==
    {k \in [1..4 -> {"matches", "differs", "error"}] :
        \A a \in 1..4 : k[a] # "matches" => \A b \in (a + 1)..4 : k[b] = "matches"}

NoReplies == [a \in 1..4 |-> "matches"]

DoMkdir ==
    /\ pc = "mkdir"
    /\ \E ok \in BOOLEAN : Becomes(Mkdir(Cur, ok))

DoCreateFile ==
    /\ pc = "create"
    /\ \E outcome \in {"ok", "create", "separator", "row"} :
          Becomes(CreateFile(Cur, outcome))

DoConnect ==
    /\ pc = "connect"
    /\ \E outcome \in {"ok", "cert", "client"} : Becomes(Connect(Cur, outcome))

DoFetchBlock ==
    /\ pc = "fetch"
    /\ \E outcome \in {"ok", "hash", "block", "serialize"} :
          \E block \in (IF outcome = "ok" THEN TestBlocks ELSE {BlockCoinbaseOnly}) :
             Becomes(FetchBlock(Cur, outcome, block))

DoProcessP ==
    /\ pc = "fan"
    /\ i <= NumP
    /\ \E kinds \in (IF i = DefaultP THEN ReplyKinds ELSE {NoReplies}) :
          \E fault \in (IF IsTestHeight(Cur) THEN {"none", "separator", "row"}
                        ELSE {"none"}) :
             Becomes(ProcessP(Cur, kinds, fault))

DoEndHeight ==
    /\ pc = "fan"
    /\ i > NumP
    /\ Becomes(EndHeight(Cur))

Next ==
    \/ DoMkdir
    \/ DoCreateFile
    \/ DoConnect
    \/ DoFetchBlock
    \/ DoProcessP
    \/ DoEndHeight

Spec == Init /\ [][Next]_vars

\* ------------------------------------------------- reading the state
\* The rows of test vectors written to the file of P (the comment row, a
\* row of one column, is not one of them).
IsRowChunk(c) == Len(c) = 2 /\ c[1] = "json" /\ Len(c[2]) = 10

RowsOf(P) ==
    LET rows == SelectSeq(disk[P].data, IsRowChunk)
    IN  [k \in 1..Len(rows) |-> rows[k][2]]

\* The heights printed by fmt.Printf("Height: %d\n", height), in order.
IsHeightLine(l) == Len(l) = 2

FetchedHeights ==
    LET ls == SelectSeq(stdout, IsHeightLine)
    IN  [k \in 1..Len(ls) |-> ls[k][2]]

\* The number of times the chain slots of P were assigned.
TimesAdvanced(P) == Len(advLog[P])

\* The k-th pair of the canonical order: heights ascending, and P = 1..32
\* ascending within a height.
Canonical(k) == <<(k - 1) \div NumP, ((k - 1) % NumP) + 1>>

\* The headers the chain definition gives for the blocks the server has
\* returned: header[h] = doubleHash(filterHash[h] || header[h-1]), with
\* header[-1] the zero hash.
RECURSIVE BasicChainHeader(_, _)
BasicChainHeader(P, h) ==
    IF h < 0 THEN ZeroHash
    ELSE DoubleHashH(<<DoubleHashH(NBytes(buildBasicFilter(chain[h + 1], P).filter)),
                       BasicChainHeader(P, h - 1)>>)

RECURSIVE ExtChainHeader(_, _)
ExtChainHeader(P, h) ==
    IF h < 0 THEN ZeroHash
    ELSE DoubleHashH(<<DoubleHashH(NBytes(buildExtFilter(chain[h + 1], P).filter)),
                       ExtChainHeader(P, h - 1)>>)

\* ------------------------------------------------------------- claims
\* C1: header chaining.  For every P, after the slots of P have been
\* assigned for the heights 0..h, prevBasicHeaders[P] is the basic chain
\* header of height h, that is nextHeader(basicFilter(h, P), H) with H the
\* basic header of height h-1 (the zero hash below height 0); the same for
\* prevExtHeaders[P] and the extended chain.
C1_HeaderChaining ==
    \A P \in Ps :
        /\ prevBasicHeaders[P] = BasicChainHeader(P, TimesAdvanced(P) - 1)
        /\ prevExtHeaders[P] = ExtChainHeader(P, TimesAdvanced(P) - 1)

\* Every slot has been advanced over two heights at least, and the two
\* chains differ.
C1_Witness ==
    /\ \A P \in Ps : TimesAdvanced(P) >= 2
    /\ prevBasicHeaders[NumP] # prevExtHeaders[NumP]
    /\ prevBasicHeaders[NumP] # prevBasicHeaders[1]

\* C2: before height 0 is processed for P, both previous-header slots of P
\* hold the all-zero hash; so every row emitted for height 0, in every
\* stream, records the all-zero hash as previous basic and previous
\* extended header.
C2_GenesisPredecessorZero ==
    \A P \in Ps :
        /\ ( \/ pc \in {"mkdir", "create", "connect", "fetch"} /\ height = 0
             \/ pc = "fan" /\ height = 0 /\ P >= i )
           => /\ prevBasicHeaders[P] = ZeroHash
              /\ prevExtHeaders[P] = ZeroHash
        /\ \A k \in 1..Len(RowsOf(P)) :
              RowsOf(P)[k][1] = 0
              => /\ RowsOf(P)[k][4] = HashString(ZeroHash)
                 /\ RowsOf(P)[k][5] = HashString(ZeroHash)

\* The row of height 0 has been written to every stream, and height 1 is
\* under way.
C2_Witness ==
    /\ \A P \in Ps : Len(RowsOf(P)) >= 1 /\ RowsOf(P)[1][1] = 0
    /\ height = 1
    /\ pc = "fan"

\* The number of times the filters of P were built, when builtLog is in
\* the canonical order.
TimesBuilt(P) ==
    (Len(builtLog) \div NumP) + (IF Len(builtLog) % NumP >= P THEN 1 ELSE 0)

\* C3: ordering discipline.  The heights fetched are 0, 1, 2, ... with none
\* skipped or repeated; the filters of a fetched block are built for
\* P = 1..32 in that order, one block after the other; and each chain slot
\* is assigned once per height whose filters were built for its P (the
\* last such height may be the one an abort cut short), at the heights
\* 0, 1, 2, ... in that order.
C3_OrderingDiscipline ==
    /\ \A k \in 1..Len(FetchedHeights) : FetchedHeights[k] = k - 1
    /\ Len(chain) <= Len(FetchedHeights)
    /\ Len(FetchedHeights) <= Len(chain) + 1
    /\ \A k \in 1..Len(builtLog) :
          /\ builtLog[k] = Canonical(k)
          /\ builtLog[k][1] < Len(chain)
    /\ \A P \in Ps :
          /\ \A k \in 1..Len(advLog[P]) : advLog[P][k] = k - 1
          /\ Len(advLog[P]) <= TimesBuilt(P)
          /\ TimesBuilt(P) <= Len(advLog[P]) + 1
          /\ P < NumP => Len(advLog[P + 1]) <= Len(advLog[P])

\* Three blocks have been fetched and fanned out.
C3_Witness ==
    /\ Len(FetchedHeights) = 3
    /\ \A P \in Ps : Len(advLog[P]) = 3

\* main has returned after printing an error.
Aborted ==
    /\ pc = "done"
    /\ stdout # <<>>
    /\ Len(Last(stdout)) = 1
    /\ Last(stdout) # <<"Verified against server">>

\* main has returned from the end of its body.
Completed == pc = "done" /\ ~Aborted

LastTestHeight == Last(testBlockHeights).height

\* C4: row emission.  In every stream the rows written so far are the rows
\* of the first interesting heights, in the order of the list: the k-th row
\* carries the k-th interesting height, the block of that height and the
\* note of that height; so no other height has a row and the heights of a
\* stream ascend.  When the run completes without abort every stream holds
\* exactly one row per interesting height.
C4_RowEmission ==
    \A P \in Ps :
        LET rows == RowsOf(P) IN
        /\ Len(rows) <= Len(testBlockHeights)
        /\ \A k \in 1..Len(rows) :
              /\ rows[k][1] = testBlockHeights[k].height
              /\ rows[k][10] = testBlockHeights[k].comment
              /\ rows[k][2] = HashString(chain[rows[k][1] + 1].Hash)
              /\ k > 1 => rows[k - 1][1] < rows[k][1]
        /\ Completed => Len(rows) = Len(testBlockHeights)

\* A completed run over a list that leaves out a height between two
\* interesting ones.
C4_Witness ==
    /\ Completed
    /\ Len(testBlockHeights) = 2
    /\ testBlockHeights[1].height = 0
    /\ testBlockHeights[2].height = 2
    /\ \A P \in Ps : Len(RowsOf(P)) = 2

\* How far main has come: the rounds of its loops that are behind it.
Progress ==
    CASE pc = "mkdir"   -> 0
      [] pc = "create"  -> i
      [] pc = "connect" -> NumP + 1
      [] pc = "fetch"   -> (height + 1) * (NumP + 2)
      [] pc = "fan"     -> (height + 1) * (NumP + 2) + i
      [] OTHER          -> (LastTestHeight + 2) * (NumP + 2)

\* main is not stuck: the statement it is at can be executed (the block of
\* the inner loop is there and testBlockIndex is within the table).
Ready ==
    \/ pc \in {"mkdir", "connect"}
    \/ pc = "create" /\ i \in Ps
    \/ pc = "fetch" /\ testBlockIndex < Len(testBlockHeights)
    \/ /\ pc = "fan"
       /\ i \in 1..(NumP + 1)
       /\ Len(chain) = height + 1
       /\ testBlockIndex < Len(testBlockHeights)

\* C5: termination.  Every step of main makes progress, progress is bounded
\* by the last interesting height and main is never stuck before it
\* returns, so every run ends; no height greater than the last interesting
\* one is ever fetched; and a run that ends without abort ends right after
\* the last interesting height: that height is the last one fetched and
\* processed.
C5_Termination ==
    /\ [][Progress' > Progress]_vars
    /\ [](Progress <= (LastTestHeight + 2) * (NumP + 2))
    /\ [](pc # "done" => Ready)
    /\ [](\A k \in 1..Len(FetchedHeights) : FetchedHeights[k] <= LastTestHeight)
    /\ [](Completed => /\ Len(chain) = LastTestHeight + 1
                       /\ \A P \in Ps : Len(advLog[P]) = LastTestHeight + 1
                       /\ height = LastTestHeight + 1
                       /\ testBlockIndex = Len(testBlockHeights))

\* A run has completed after fetching more than one block.
C5_Witness ==
    /\ Completed
    /\ LastTestHeight >= 1
    /\ Len(FetchedHeights) = LastTestHeight + 1

\* The value the k-th call of the cross-check is compared with: the bytes
\* of the basic and of the extended filter of the current block for the
\* default P, and the basic and the extended chain header of its height.
LocalValue(k) ==
    CASE k = 1 -> NBytes(buildBasicFilter(Last(chain), DefaultP).filter)
      [] k = 2 -> NBytes(buildExtFilter(Last(chain), DefaultP).filter)
      [] k = 3 -> BasicChainHeader(DefaultP, Len(chain) - 1)
      [] OTHER -> ExtChainHeader(DefaultP, Len(chain) - 1)

\* The k-th reply of the server for the current block differs from the
\* local value.
Mismatch(k) ==
    /\ k <= Len(reference)
    /\ ~reference[k].err
    /\ reference[k].data # LocalValue(k)

\* The previous-header slots of P hold the chain headers of height h.
SlotsAt(P, h) ==
    /\ prevBasicHeaders[P] = BasicChainHeader(P, h)
    /\ prevExtHeaders[P] = ExtChainHeader(P, h)

HasRowFor(P, h) == \E k \in 1..Len(RowsOf(P)) : RowsOf(P)[k][1] = h

FetchErrors ==
    {<<"Couldn't get block hash: ">>, <<"Error serializing block to buffer: ">>}

\* A call to the block source has failed.
FetchFailed == \E k \in 1..Len(stdout) : stdout[k] \in FetchErrors

\* C7: a block-source failure at height h ends the run at once.  main has
\* returned with the failure as its last message, h was asked for once, no
\* filter was built for h, no stream has a row for h and every chain slot
\* holds the header of height h-1.
C7_BlockSourceFailureAborts ==
    FetchFailed =>
        /\ pc = "done"
        /\ Last(stdout) \in FetchErrors
        /\ Last(FetchedHeights) = height
        /\ Len(FetchedHeights) = height + 1
        /\ Len(chain) = height
        /\ Len(builtLog) = height * NumP
        /\ \A k \in 1..Len(builtLog) : builtLog[k][1] < height
        /\ \A P \in Ps :
              /\ Len(advLog[P]) = height
              /\ ~HasRowFor(P, height)
              /\ SlotsAt(P, height - 1)

\* The block source fails at height 1, an interesting height.
C7_Witness ==
    /\ FetchFailed
    /\ height = 1
    /\ \E k \in 1..Len(testBlockHeights) : testBlockHeights[k].height = 1
    /\ \A P \in Ps : HasRowFor(P, 0)

\* ------------------------------------------- the element sets, restated
\* The element set a filter's bytes encode (none for the empty filter).
SetOfBytes(bytes) == IF Len(bytes) = 4 THEN bytes[4] ELSE {}

RowBasicSet(row) == SetOfBytes(row[6][2])

RowExtSet(row) == SetOfBytes(row[7][2])

\* The data items a script pushes; none when it cannot be parsed.
Pushes(script) == Range(PushedData(script).data)

TxHashes(txs) == {txs[t].Hash : t \in 1..Len(txs)}

\* The serialized previous outpoints of the inputs of the transactions after
\* the first.
SpentOutPoints(txs) ==
    UNION {{OutPointBytes(txs[t].TxIn[n].PreviousOutPoint) : n \in 1..Len(txs[t].TxIn)}
           : t \in 2..Len(txs)}

\* The data pushed by the locking scripts of all outputs.
OutputPushes(txs) ==
    UNION {UNION {Pushes(txs[t].TxOut[n]) : n \in 1..Len(txs[t].TxOut)}
           : t \in 1..Len(txs)}

\* The locking scripts of all outputs, each as a whole.
OutputScripts(txs) ==
    UNION {{txs[t].TxOut[n] : n \in 1..Len(txs[t].TxOut)} : t \in 1..Len(txs)}

\* What one input offers to the extended set.
InputData(txIn) ==
    (IF txIn.SignatureScript = NilScript THEN {} ELSE Pushes(txIn.SignatureScript))
    \cup Range(txIn.Witness)

\* What the inputs of the transactions after the first offer to the
\* extended set.
SpendingInputData(txs) ==
    UNION {UNION {InputData(txs[t].TxIn[n]) : n \in 1..Len(txs[t].TxIn)}
           : t \in 2..Len(txs)}

CoinbaseInputs(txs) == {txs[1].TxIn[n] : n \in 1..Len(txs[1].TxIn)}

C9_BasicElementSet ==
    \A P \in Ps : LET rows == RowsOf(P) IN \A k \in 1..Len(rows) :
        LET row == rows[k]
            txs == chain[row[1] + 1].Transactions
        IN  RowBasicSet(row) =
               TxHashes(txs) \cup SpentOutPoints(txs) \cup OutputPushes(txs)

\* The block without output number n of transaction number t.
WithoutOutput(block, t, n) ==
    [block EXCEPT !.Transactions[t].TxOut =
        SubSeq(@, 1, n - 1) \o SubSeq(@, n + 1, Len(@))]

\* C10: unparseable output scripts, as claimed.  In every row, an output
\* whose locking script cannot be parsed contributes nothing: the basic
\* set is the one of the block without that output, and the row exists,
\* that is the block was filtered without error.
C10_UnparseableContributesNothing ==
    \A P \in Ps : LET rows == RowsOf(P) IN \A k \in 1..Len(rows) :
        LET row   == rows[k]
            block == chain[row[1] + 1]
            txs   == block.Transactions
        IN  \A t \in 1..Len(txs) : \A n \in 1..Len(txs[t].TxOut) :
               PushedData(txs[t].TxOut[n]).err
               => /\ ~buildBasicFilter(WithoutOutput(block, t, n), P).err
                  /\ RowBasicSet(row) =
                        buildBasicFilter(WithoutOutput(block, t, n), P).filter.set

IsFilterBytes(b) ==
    \/ Len(b) = 1 /\ b[1] = 0
    \/ Len(b) = 4 /\ b[1] >= 1 /\ b[1] = Cardinality(b[4])

EmptyFilterBytes == <<0>>

BuildErrors ==
    {<<"Error generating basic filter: ">>, <<"Error generating ext filter: ">>,
     <<"Error generating header for filter: ">>, <<"Couldn't get NBytes(): ">>}

TestHeights == {testBlockHeights[k].height : k \in 1..Len(testBlockHeights)}

RECURSIVE BasicHeaderOver(_, _, _)
BasicHeaderOver(blocks, P, h) ==
    IF h < 0 THEN InitialHeaders[P]
    ELSE MakeHeaderForFilter(buildBasicFilter(blocks[h + 1], P).filter,
                             BasicHeaderOver(blocks, P, h - 1))

RECURSIVE ExtHeaderOver(_, _, _)
ExtHeaderOver(blocks, P, h) ==
    IF h < 0 THEN InitialHeaders[P]
    ELSE MakeHeaderForFilter(buildExtFilter(blocks[h + 1], P).filter,
                             ExtHeaderOver(blocks, P, h - 1))

\* A byte string changed: one byte more.
Changed(bytes) == bytes \o <<99>>

\* The block with output n of transaction t changed; the transaction's hash
\* and the block's hash change with it.
OutputMutation(block, t, n) ==
    [block EXCEPT !.Hash = Changed(@),
                  !.Transactions[t].Hash = Changed(@),
                  !.Transactions[t].TxOut[n] = Changed(@)]

\* The block with the signature script of input n of transaction t changed
\* (by one more push); the two hashes change with it.
SigScriptMutation(block, t, n) ==
    [block EXCEPT !.Hash = Changed(@),
                  !.Transactions[t].Hash = Changed(@),
                  !.Transactions[t].TxIn[n].SignatureScript = @ \o <<1, 99>>]

\* The block with witness item k of input n of transaction t changed; a
\* transaction's hash does not cover its witnesses, nor does the block's.
WitnessMutation(block, t, n, k) ==
    [block EXCEPT !.Transactions[t].TxIn[n].Witness[k] = Changed(@)]

OutputMutations(block) ==
    {OutputMutation(block, t, n) :
        <<t, n>> \in {tn \in (1..Len(block.Transactions)) \X (1..3) :
                         tn[2] <= Len(block.Transactions[tn[1]].TxOut)}}

SigScriptMutations(block) ==
    {SigScriptMutation(block, t, n) :
        <<t, n>> \in {tn \in (1..Len(block.Transactions)) \X (1..3) :
                         /\ tn[2] <= Len(block.Transactions[tn[1]].TxIn)
                         /\ block.Transactions[tn[1]].TxIn[tn[2]].SignatureScript
                               # NilScript}}

WitnessMutations(block) ==
    {WitnessMutation(block, ix[1], ix[2], ix[3]) :
        ix \in {x \in (1..Len(block.Transactions)) \X (1..3) \X (1..3) :
                  /\ x[2] <= Len(block.Transactions[x[1]].TxIn)
                  /\ x[3] <= Len(block.Transactions[x[1]].TxIn[x[2]].Witness)}}

\* The blocks that differ from block in one element.
Mutations(block) ==
    OutputMutations(block) \cup SigScriptMutations(block) \cup WitnessMutations(block)

\* All slots hold the headers of the current height.
HeightDone == pc = "fan" /\ i > NumP

\* C13, as claimed: avalanche and prefix stability.  Take the run so far
\* and the run over the same blocks but for one changed element of block h.
\* For every P the basic and the extended header of a height from h on
\* differ between the two runs, and the headers of a height below h are
\* the same.
C13_Avalanche ==
    HeightDone =>
        \A h \in 0..(Len(chain) - 1) : \A m \in Mutations(chain[h + 1]) :
            \A P \in Ps :
                LET other == [chain EXCEPT ![h + 1] = m]
                    g     == TimesAdvanced(P) - 1
                IN  /\ g = height
                    /\ prevBasicHeaders[P] # BasicHeaderOver(other, P, g)
                    /\ prevExtHeaders[P] # ExtHeaderOver(other, P, g)
                    /\ h > 0 =>
                          /\ BasicHeaderOver(chain, P, h - 1)
                                = BasicHeaderOver(other, P, h - 1)
                          /\ ExtHeaderOver(chain, P, h - 1)
                                = ExtHeaderOver(other, P, h - 1)

\* C13, amended.  For every P and each of the two chains: the headers of a
\* height below h are the same in the two runs; the header of a height
\* from h on differs between the runs exactly when the filter bytes of
\* that chain for block h differ.  The basic filter bytes differ when an
\* output or a signature script is changed and are the same when a witness
\* item is; the extended filter bytes are the same when the input changed
\* is a coinbase input of a block whose extended set is empty, and whenever
\* an output of such a block is changed.
C13_AvalancheWhereFilterDiffers ==
    HeightDone =>
        \A h \in 0..(Len(chain) - 1) : \A m \in Mutations(chain[h + 1]) :
            LET other == [chain EXCEPT ![h + 1] = m]
                txs   == chain[h + 1].Transactions
            IN  /\ \A P \in Ps :
                      LET g == TimesAdvanced(P) - 1
                          basicDiffers ==
                              NBytes(buildBasicFilter(chain[h + 1], P).filter)
                                 # NBytes(buildBasicFilter(m, P).filter)
                          extDiffers ==
                              NBytes(buildExtFilter(chain[h + 1], P).filter)
                                 # NBytes(buildExtFilter(m, P).filter)
                      IN  /\ g = height
                          /\ basicDiffers
                               <=> prevBasicHeaders[P] # BasicHeaderOver(other, P, g)
                          /\ extDiffers
                               <=> prevExtHeaders[P] # ExtHeaderOver(other, P, g)
                          /\ h > 0 =>
                                /\ BasicHeaderOver(chain, P, h - 1)
                                      = BasicHeaderOver(other, P, h - 1)
                                /\ ExtHeaderOver(chain, P, h - 1)
                                      = ExtHeaderOver(other, P, h - 1)
                          /\ m \in OutputMutations(chain[h + 1])
                                     \cup SigScriptMutations(chain[h + 1])
                               => basicDiffers
                          /\ m \in WitnessMutations(chain[h + 1]) => ~basicDiffers
                          /\ (SpendingInputData(txs) = {}
                                /\ SpendingInputData(m.Transactions) = {})
                               => ~extDiffers
                          /\ SpendingInputData(txs) # SpendingInputData(m.Transactions)
                               => extDiffers

\* Three heights are done; a change of a witness item of the block of
\* height 0 has changed the extended header of height 2 and left the basic
\* one as it was, a change of an output of the block of height 1 has
\* changed the basic header and left the extended one as it was.
C13_Witness ==
    /\ HeightDone
    /\ Len(chain) = 3
    /\ \E m \in WitnessMutations(chain[1]) :
          LET other == [chain EXCEPT ![1] = m]
          IN  /\ prevExtHeaders[NumP] # ExtHeaderOver(other, NumP, 2)
              /\ prevBasicHeaders[NumP] = BasicHeaderOver(other, NumP, 2)
    /\ \E m \in OutputMutations(chain[2]) :
          LET other == [chain EXCEPT ![2] = m]
          IN  /\ prevBasicHeaders[1] # BasicHeaderOver(other, 1, 2)
              /\ prevExtHeaders[1] = ExtHeaderOver(other, 1, 2)
              /\ BasicHeaderOver(chain, 1, 0) = BasicHeaderOver(other, 1, 0)
\* ------------------------------------------ entries added in other ways
\* The filter bytes built for key and P from the entries added in the
\* order of the list.
BuiltBytes(key, P, entries) ==
    NBytes(Build(AddEntries(WithKeyHashP(key, P), entries)).filter)

Reverse(d) == [k \in 1..Len(d) |-> d[Len(d) + 1 - k]]

\* Other ways of adding the entries of d: in reverse, starting from the
\* second, all of them twice, the first one three times.
Rearrangements(d) ==
    {Reverse(d), d \o d, d \o Reverse(d)}
       \cup (IF d = <<>> THEN {}
              ELSE {Tail(d) \o <<Head(d)>>, <<Head(d), Head(d)>> \o d})

\* The lists of at most n entries taken from S.
SeqsUpTo(S, n) == UNION {[1..k -> S] : k \in 0..n}

\* The entries buildBasicFilter and buildExtFilter add for a block, in the
\* order they add them.
BasicEntries(block, P) ==
    BasicLoop(WithKeyHashP(block.Hash, P), 0, block.Transactions).data

ExtEntries(block, P) ==
    ExtLoop(WithKeyHashP(block.Hash, P), 0, block.Transactions).data

IsJsonChunk(c) == Len(c) = 2 /\ c[1] = "json"

\* What was written to a stream before its closing bracket, if it has one.
BeforeClosing(d) ==
    IF d # <<>> /\ Last(d) = CloseBracket THEN SubSeq(d, 1, Len(d) - 1) ELSE d

\* An opening bracket, the comment row, then a comma and a row of test
\* vectors any number of times; or nothing at all.
RowsFramed(d) ==
    \/ d = <<>>
    \/ /\ Len(d) % 2 = 0
       /\ d[1] = OpenBracket
       /\ d[2] = Marshal(<<HeaderComment>>)
       /\ \A k \in 3..Len(d) :
             IF k % 2 = 1 THEN d[k] = Comma ELSE IsRowChunk(d[k])

\* C15, as claimed: output stream framing.  Every stream is an opening
\* bracket, the comment row, then comma-separated rows of test vectors;
\* while the file is open it holds no closing bracket, and once it is
\* closed it ends with the closing bracket exactly when at least one row
\* was written to it.
C15_StreamFraming ==
    \A P \in Ps :
        LET d == disk[P].data IN
        /\ RowsFramed(BeforeClosing(d))
        /\ disk[P].state = "open" => BeforeClosing(d) = d
        /\ disk[P].state = "closed" =>
              ((d # <<>> /\ Last(d) = CloseBracket)
                 <=> \E k \in 1..Len(d) : IsJsonChunk(d[k]))
AtStep == pc = "fan" /\ i <= NumP

\* The rows of test vectors among the chunks written to a stream.
RowsIn(data) == SelectSeq(data, IsRowChunk)

\* The step for (height, P = i) appends a row to the stream of P.
WritesRow == AtStep /\ Len(RowsIn(disk'[i].data)) = Len(RowsIn(disk[i].data)) + 1

SlotsFrame ==
    /\ \A Q \in (0..NumP) \ {i} :
          /\ prevBasicHeaders'[Q] = prevBasicHeaders[Q]
          /\ prevExtHeaders'[Q] = prevExtHeaders[Q]
    /\ IF pc' = "done"
       THEN /\ prevBasicHeaders'[i] = prevBasicHeaders[i]
            /\ prevExtHeaders'[i] = prevExtHeaders[i]
       ELSE /\ prevBasicHeaders'[i] =
                  MakeHeaderForFilter(buildBasicFilter(Last(chain), i).filter,
                                      prevBasicHeaders[i])
            /\ prevExtHeaders'[i] =
                  MakeHeaderForFilter(buildExtFilter(Last(chain), i).filter,
                                      prevExtHeaders[i])

Verified == <<"Verified against server">>

CrossCheckFailures ==
    {<<RpcErrorText[k]>> : k \in 1..4} \cup {<<MismatchText[k]>> : k \in 1..4}

\* C19: validation precedes emission at the default P.  For every row of
\* the default-P stream, for height h: the line "Height: h" is followed at
\* once by "Verified against server", and no failure of a cross-check was
\* reported for h; while h is the current height the four replies of the
\* server are there and each equals the local value.  A run that a
\* cross-check ended at height h has no row for h in the default-P stream.
C19_ValidationPrecedesEmission ==
    /\ \A k \in 1..Len(RowsOf(DefaultP)) :
          LET h == RowsOf(DefaultP)[k][1] IN
          /\ \E a \in 1..(Len(stdout) - 1) :
                /\ stdout[a] = <<"Height", h>>
                /\ stdout[a + 1] = Verified
          /\ h = Len(chain) - 1 =>
                /\ Len(reference) = 4
                /\ \A r \in 1..4 :
                      ~reference[r].err /\ reference[r].data = LocalValue(r)
    /\ (stdout # <<>> /\ Last(stdout) \in CrossCheckFailures) =>
          /\ pc = "done"
          /\ ~HasRowFor(DefaultP, height)
          /\ \A k \in 1..Len(RowsOf(DefaultP)) :
                RowsOf(DefaultP)[k][1] < height

\* The default-P stream has the rows of heights 0 and 1, each written
\* after its block was verified, and the run was then ended at height 2 by
\* a header of the server that differs: the stream has no row for height 2
\* although 2 is an interesting height.
C19_Witness ==
    /\ Len(RowsOf(DefaultP)) = 2
    /\ RowsOf(DefaultP)[2][1] = 1
    /\ height = 2
    /\ 2 \in TestHeights
    /\ Last(stdout) = <<MismatchText[4]>>
    /\ Len(SelectSeq(stdout, LAMBDA l : l = Verified)) = 2
    /\ HasRowFor(DefaultP - 1, 2)
\* ------------------------------------------------------ finalisation
\* The number of closing brackets written to a stream.
ClosingBrackets(d) == Len(SelectSeq(d, LAMBDA c : c = CloseBracket))

====
